---- MODULE Spec2Model ----
(***************************************************************************)
(* A model of cinema/views.py: the Django REST framework view sets of the  *)
(* cinema booking backend (MovieViewSet, MovieSessionViewSet,              *)
(* OrderViewSet with OrderViewSetPagination).                              *)
(*                                                                         *)
(* Strings that the code parses (ID lists, page_size, movie id) are        *)
(* sequences of one-character strings, so that str.split, int() and        *)
(* icontains are computed and not assumed.  A query parameter that is      *)
(* absent and one that is the empty string are both the empty sequence:    *)
(* every use in the code (`if genres:`, `if date:`, int("") raising) treats *)
(* the two alike.                                                          *)
(*                                                                         *)
(* A view set is instantiated once per request; its `queryset` is a class  *)
(* attribute.  `self.queryset = ...` writes the instance, a read of        *)
(* `self.queryset` falls back to the class attribute when the instance has *)
(* none.  A QuerySet caches its rows once it is iterated, and filter() and *)
(* annotate() return a fresh clone without rows.                           *)
(***************************************************************************)
EXTENDS Integers, Sequences, FiniteSets, TLC

VARIABLES
    movies,          \* Movie table: row id -> [title, genres, actors]
    movie_sessions,  \* MovieSession table: row id -> [movie, cinema_hall, show_date]
    orders,          \* Order table: row id -> [user, tickets], tickets: session ids
    class_queryset,  \* view class name -> its class attribute `queryset`
    request,         \* the request being answered
    response,        \* the response produced for it
    created_by,      \* history: created_by[i] is the user who sent the request that created order i
    filtered_before  \* history: an earlier list request applied a filter

vars ==
    <<movies, movie_sessions, orders, class_queryset, request, response, created_by,
      filtered_before>>

----------------------------------------------------------------------------
(* Bounds of the model *)

MaxMovies == 2
MaxIds == 2
MaxSessions == 2
MaxTickets == 2
MaxOrders == 11

(* Program constants *)

page_size == 2
max_page_size == 10

Users == {"alice", "bob"}

----------------------------------------------------------------------------
(* Strings *)

Range(s) == {s[i] : i \in DOMAIN s}

Min(a, b) == IF a < b THEN a ELSE b

SeqsUpTo(S, n) == UNION {[1..k -> S] : k \in 0..n}

RECURSIVE Flatten(_)
Flatten(ss) == IF ss = <<>> THEN <<>> ELSE Head(ss) \o Flatten(Tail(ss))

IsDigit(c) == c \in {"0", "1", "2", "3", "4", "5", "6", "7", "8", "9"}

DigitVal(c) ==
    CASE c = "0" -> 0 [] c = "1" -> 1 [] c = "2" -> 2 [] c = "3" -> 3
      [] c = "4" -> 4 [] c = "5" -> 5 [] c = "6" -> 6 [] c = "7" -> 7
      [] c = "8" -> 8 [] c = "9" -> 9

RECURSIVE lstrip(_)
lstrip(s) == IF s # <<>> /\ Head(s) = " " THEN lstrip(Tail(s)) ELSE s

RECURSIVE rstrip(_)
rstrip(s) ==
    IF s # <<>> /\ s[Len(s)] = " " THEN rstrip(SubSeq(s, 1, Len(s) - 1)) ELSE s

strip(s) == rstrip(lstrip(s))

\* The digits of an integer literal: surrounding blanks and one sign removed.
Unsigned(s) ==
    LET t == strip(s)
    IN  IF t # <<>> /\ Head(t) \in {"+", "-"} THEN Tail(t) ELSE t

\* int(s) returns (it raises ValueError otherwise).
IsIntLiteral(s) ==
    /\ Unsigned(s) # <<>>
    /\ \A i \in DOMAIN Unsigned(s) : IsDigit(Unsigned(s)[i])

RECURSIVE DigitsValue(_)
DigitsValue(d) ==
    IF d = <<>> THEN 0
    ELSE 10 * DigitsValue(SubSeq(d, 1, Len(d) - 1)) + DigitVal(d[Len(d)])

\* The value of int(s) when it returns.
int(s) ==
    LET t == strip(s)
    IN  IF t # <<>> /\ Head(t) = "-" THEN 0 - DigitsValue(Unsigned(s))
        ELSE DigitsValue(Unsigned(s))

\* str.split(sep): always at least one token, empty tokens kept.
RECURSIVE split(_, _)
split(s, sep) ==
    IF \E i \in DOMAIN s : s[i] = sep
    THEN LET i == CHOOSE k \in DOMAIN s :
                      s[k] = sep /\ \A j \in 1..(k - 1) : s[j] # sep
         IN  <<SubSeq(s, 1, i - 1)>> \o split(SubSeq(s, i + 1, Len(s)), sep)
    ELSE <<s>>

\* needle is a contiguous part of hay (Python's `in` on strings).
Contains(hay, needle) ==
    \E i \in 0..(Len(hay) - Len(needle)) :
        SubSeq(hay, i + 1, i + Len(needle)) = needle

lower(c) ==
    CASE c = "A" -> "a" [] c = "B" -> "b" [] OTHER -> c

Lower(s) == [i \in DOMAIN s |-> lower(s[i])]

\* The title__icontains lookup.
icontains(title, text) == Contains(Lower(title), Lower(text))

----------------------------------------------------------------------------
(* Exceptions and their messages.  A message is a sequence of text chunks; *)
(* a formatted value is spliced in character by character.                 *)

Return(v) == [raised |-> FALSE, value |-> v, exception |-> "", message |-> <<>>]

Raise(exc, msg) == [raised |-> TRUE, value |-> <<>>, exception |-> exc, message |-> msg]

\* repr() of a string: in single quotes, or in double quotes when it holds a
\* single quote and no double quote; a backslash and the quote used are
\* escaped by a backslash.
Repr(msg) ==
    LET quote == IF "'" \in Range(msg) /\ "\"" \notin Range(msg) THEN "\"" ELSE "'"
    IN  <<quote>>
        \o Flatten([i \in DOMAIN msg |->
                IF msg[i] = "\\" THEN <<"\\", "\\">>
                ELSE IF msg[i] = quote THEN <<"\\", quote>>
                ELSE <<msg[i]>>])
        \o <<quote>>

\* str(e) of a serializers.ValidationError built from one string: the str()
\* of its detail, a list of one ErrorDetail, which prints by its repr().
StrOfValidationError(msg) ==
    <<"[ErrorDetail(string=">> \o Repr(msg) \o <<", code='invalid')]">>

----------------------------------------------------------------------------
(* Requests and responses *)

NoRequest ==
    [op |-> "none", user |-> "", genres |-> <<>>, actors |-> <<>>, title |-> <<>>,
     date |-> <<>>, movie |-> <<>>, page_size |-> <<>>, page |-> 1,
     user_param |-> "", body_user |-> "", pk |-> 0]

NoResponse == [status |-> 0, kind |-> "none", rows |-> <<>>, detail |-> <<>>]

Idle == response.kind = "none"

\* The request carries a filter parameter.
HasFilter(req) ==
    req.genres # <<>> \/ req.actors # <<>> \/ req.title # <<>>
        \/ req.date # <<>> \/ req.movie # <<>>

----------------------------------------------------------------------------
(* QuerySets *)

NoRows == [filled |-> FALSE, rows |-> <<>>]

\* Model.objects.all(): no filter, no annotation, not yet evaluated.
BaseQuerySet(model) ==
    [model |-> model, filters |-> <<>>, annotated |-> FALSE, result_cache |-> NoRows]

\* One condition of a query: filter(<lookup> = <value>).
Lookup(name, value) == [lookup |-> name, value |-> value]

\* QuerySet.filter: a clone with one more condition and no cached rows.
filter(queryset, cond) ==
    [queryset EXCEPT !.filters = Append(@, cond), !.result_cache = NoRows]

\* QuerySet.annotate(tickets_available = ...): a clone carrying the annotation.
annotate(queryset) ==
    [queryset EXCEPT !.annotated = TRUE, !.result_cache = NoRows]

RECURSIVE Repeat(_, _)
Repeat(x, n) == IF n <= 0 THEN <<>> ELSE <<x>> \o Repeat(x, n - 1)

RECURSIVE Product(_)
Product(s) == IF s = <<>> THEN 1 ELSE Head(s) * Product(Tail(s))

\* Rows one condition contributes for movie m: a lookup through a
\* many-to-many relation joins the link table, one row per matching link.
MovieJoinRows(m, cond) ==
    CASE cond.lookup = "genres__id__in" -> Cardinality(movies[m].genres \cap cond.value)
      [] cond.lookup = "actors__id__in" -> Cardinality(movies[m].actors \cap cond.value)
      [] cond.lookup = "title__icontains" ->
            IF icontains(movies[m].title, cond.value) THEN 1 ELSE 0
      [] OTHER -> 1

\* The rows of a Movie query: movie ids, one per joined row.
MovieRows(queryset) ==
    Flatten([m \in DOMAIN movies |->
        Repeat(m, Product([i \in DOMAIN queryset.filters |->
                              MovieJoinRows(m, queryset.filters[i])]))])

\* Iterating a QuerySet: the cached rows when it has them, else a database read.
Rows(queryset, fresh) ==
    IF queryset.result_cache.filled THEN queryset.result_cache.rows ELSE fresh

Evaluated(queryset, fresh) ==
    [queryset EXCEPT !.result_cache = [filled |-> TRUE, rows |-> Rows(queryset, fresh)]]

----------------------------------------------------------------------------
(* View instances *)

\* as_view(): a new instance per request; its __dict__ has no `queryset`.
NewView(cls) ==
    [cls |-> cls, attr |-> class_queryset[cls], has_own |-> FALSE,
     own |-> BaseQuerySet(cls)]

\* A read of self.queryset.
SelfQueryset(view) == IF view.has_own THEN view.own ELSE view.attr

\* A faulty variant: the assignment reaches the class attribute.
AssignToClass(view, queryset) == [view EXCEPT !.attr = queryset]

\* self.queryset = queryset
AssignQueryset(view, queryset) == [view EXCEPT !.has_own = TRUE, !.own = queryset]

\* The object self.queryset names has been iterated: it keeps its rows.  The
\* class attribute is that object when the instance never assigned its own.
AfterIteration(view, fresh) ==
    IF view.has_own THEN view.attr ELSE Evaluated(view.attr, fresh)

----------------------------------------------------------------------------
(* MovieViewSet *)

\* A faulty variant: only the first ID of the list is looked up.
_filter_by_params_first_id(query_string, param_name, queryset) ==
    LET tokens == split(query_string, ",")
    IN  IF \A i \in DOMAIN tokens : IsIntLiteral(tokens[i])
        THEN Return(filter(queryset,
                 Lookup(param_name \o "__id__in", {int(tokens[1])})))
        ELSE Raise("ValidationError",
                 <<"Invalid query string: ">> \o query_string
                     \o <<". IDs must be integers.">>)

_filter_by_params(query_string, param_name, queryset) ==
    LET tokens == split(query_string, ",")
    IN  IF \A i \in DOMAIN tokens : IsIntLiteral(tokens[i])
        THEN Return(filter(queryset,
                 Lookup(param_name \o "__id__in",
                        {int(tokens[i]) : i \in DOMAIN tokens})))
        ELSE Raise("ValidationError",
                 <<"Invalid query string: ">> \o query_string
                     \o <<". IDs must be integers.">>)

\* The except clause of get_queryset: any exception is raised again as a
\* ValidationError quoting str(e).
Reraise(r) ==
    Raise("ValidationError",
          <<"Failed to filter queryset: ">> \o StrOfValidationError(r.message))

\* How far get_queryset has come: self, and the exception that ended it.
Going(view) == [raised |-> FALSE, view |-> view, message |-> <<>>]

\* self.queryset = self._filter_by_params(...), inside the try.
AssignFiltered(view, r) ==
    IF r.raised
    THEN [raised |-> TRUE, view |-> view, message |-> Reraise(r).message]
    ELSE Going(AssignQueryset(view, r.value))

\* if genres: ... / if actors: ...
FilterByIds(so_far, query_string, param_name) ==
    IF so_far.raised \/ query_string = <<>> THEN so_far
    ELSE AssignFiltered(so_far.view,
             _filter_by_params(query_string, param_name, SelfQueryset(so_far.view)))

\* if title: self.queryset = self.queryset.filter(title__icontains=title)
FilterByTitle(so_far, title) ==
    IF so_far.raised \/ title = <<>> THEN so_far
    ELSE Going(AssignQueryset(so_far.view,
                   filter(SelfQueryset(so_far.view),
                          Lookup("title__icontains", title))))

\* get_queryset: [raised, view, message], view being self after the call and
\* self.queryset what is returned.
MovieViewSet_get_queryset(view0, req) ==
    FilterByTitle(
        FilterByIds(FilterByIds(Going(view0), req.genres, "genres"),
                    req.actors, "actors"),
        req.title)

\* The response to a list request and the class attribute after it.  A
\* ValidationError becomes a 400 response carrying its detail; else the
\* serializer iterates the QuerySet returned.
MovieListAnswer(got) ==
    IF got.raised
    THEN [response |-> [status |-> 400, kind |-> "error", rows |-> <<>>,
                        detail |-> got.message],
          attr |-> got.view.attr]
    ELSE [response |-> [status |-> 200, kind |-> "movies",
                        rows |-> Rows(SelfQueryset(got.view),
                                      MovieRows(SelfQueryset(got.view))),
                        detail |-> <<>>],
          attr |-> AfterIteration(got.view, MovieRows(SelfQueryset(got.view)))]

\* ListModelMixin.list over get_queryset, no pagination.
MovieViewSet_list(view0, req) == MovieListAnswer(MovieViewSet_get_queryset(view0, req))

\* GET movies/
ListMovies(genres, actors, title) ==
    /\ Idle
    /\ LET req == [NoRequest EXCEPT !.op = "list_movies", !.genres = genres,
                                    !.actors = actors, !.title = title]
           done == MovieViewSet_list(NewView("MovieViewSet"), req)
       IN  /\ request' = req
           /\ response' = done.response
           /\ class_queryset' = [class_queryset EXCEPT !["MovieViewSet"] = done.attr]
           /\ filtered_before' =
                  (filtered_before \/ (done.response.status = 200 /\ HasFilter(req)))
    /\ UNCHANGED <<movies, movie_sessions, orders, created_by>>

MovieInputs ==
    { [title |-> <<"A", "b">>, genres |-> {1},    actors |-> {1}],
      [title |-> <<"b">>,      genres |-> {3},    actors |-> {2}],
      [title |-> <<"a", "B">>, genres |-> {2},    actors |-> {1, 2}],
      [title |-> <<"a">>,      genres |-> {1, 2}, actors |-> {}] }

\* POST movies/: CreateModelMixin.create stores the validated movie.
CreateMovie(movie) ==
    /\ Idle
    /\ Len(movies) < MaxMovies
    /\ movies' = Append(movies, movie)
    /\ request' = [NoRequest EXCEPT !.op = "create_movie"]
    /\ response' = [status |-> 201, kind |-> "created", rows |-> <<Len(movies) + 1>>,
                    detail |-> <<>>]
    /\ UNCHANGED <<movie_sessions, orders, class_queryset, created_by, filtered_before>>

\* The response has been sent; the view instance is gone.
Deliver ==
    /\ ~Idle
    /\ request' = NoRequest
    /\ response' = NoResponse
    /\ UNCHANGED <<movies, movie_sessions, orders, class_queryset, created_by, filtered_before>>

----------------------------------------------------------------------------
(* MovieSessionViewSet *)

\* The CinemaHall table (CinemaHallViewSet's rows are not changed here).
CinemaHalls ==
    << [rows |-> 1, seats_in_row |-> 2],
       [rows |-> 3, seats_in_row |-> 2],
       [rows |-> 5, seats_in_row |-> 10] >>

\* Every ticket of the Ticket table, as the session it is for.
AllTickets == Flatten([o \in DOMAIN orders |-> orders[o].tickets])

\* Count("tickets"): the ticket rows joined to session s.
CountTickets(s) == Cardinality({i \in DOMAIN AllTickets : AllTickets[i] = s})

\* A faulty variant: the tickets of every session are counted.
tickets_available_all_sessions(s) ==
    CinemaHalls[movie_sessions[s].cinema_hall].rows
        * CinemaHalls[movie_sessions[s].cinema_hall].seats_in_row
    - Len(AllTickets)

\* F("cinema_hall__rows") * F("cinema_hall__seats_in_row") - Count("tickets")
tickets_available(s) ==
    CinemaHalls[movie_sessions[s].cinema_hall].rows
        * CinemaHalls[movie_sessions[s].cinema_hall].seats_in_row
    - CountTickets(s)

IsLeap(y) == (y % 4 = 0 /\ y % 100 # 0) \/ y % 400 = 0

DaysInMonth(y, m) ==
    IF m = 2 THEN (IF IsLeap(y) THEN 29 ELSE 28)
    ELSE IF m \in {4, 6, 9, 11} THEN 30 ELSE 31

AllDigits(t) == t # <<>> /\ \A i \in DOMAIN t : IsDigit(t[i])

\* datetime.strptime(s, "%Y-%m-%d") returns (it raises ValueError otherwise):
\* a four digit year, a month and a day of one or two digits, a real day.
IsDate(s) ==
    LET p == split(s, "-")
    IN  /\ Len(p) = 3
        /\ AllDigits(p[1]) /\ Len(p[1]) = 4
        /\ AllDigits(p[2]) /\ Len(p[2]) \in 1..2
        /\ AllDigits(p[3]) /\ Len(p[3]) \in 1..2
        /\ DigitsValue(p[1]) >= 1
        /\ DigitsValue(p[2]) \in 1..12
        /\ DigitsValue(p[3]) \in 1..DaysInMonth(DigitsValue(p[1]), DigitsValue(p[2]))

\* datetime.strptime(s, "%Y-%m-%d").date() when it returns.
strptime(s) ==
    LET p == split(s, "-")
    IN  [year |-> DigitsValue(p[1]), month |-> DigitsValue(p[2]),
         day |-> DigitsValue(p[3])]

SessionMatches(s, cond) ==
    CASE cond.lookup = "show_time__date" -> movie_sessions[s].show_date = cond.value
      [] cond.lookup = "movie__id" -> movie_sessions[s].movie = cond.value
      [] OTHER -> TRUE

\* The rows of a MovieSession query, each with its annotation.
SessionRows(queryset) ==
    Flatten([s \in DOMAIN movie_sessions |->
        IF \A i \in DOMAIN queryset.filters : SessionMatches(s, queryset.filters[i])
        THEN << [id |-> s,
                 tickets_available |->
                     IF queryset.annotated THEN tickets_available(s) ELSE 0] >>
        ELSE <<>>])

\* The Response objects get_queryset builds.
InvalidDateResponse ==
    [status |-> 400, kind |-> "error", rows |-> <<>>,
     detail |-> <<"Invalid date format. Please use YYYY-MM-DD.">>]

InvalidMovieResponse ==
    [status |-> 400, kind |-> "error", rows |-> <<>>,
     detail |-> <<"Invalid movie ID. Please provide an integer.">>]

\* How far get_queryset has come: self, and the Response object returned
\* early if any.
SessionGoing(view) == [is_queryset |-> TRUE, returned |-> NoResponse, view |-> view]

\* self.queryset = self.queryset.select_related(...).annotate(...)
Annotated(view0) == SessionGoing(AssignQueryset(view0, annotate(SelfQueryset(view0))))

\* if date: ...
FilterByDate(so_far, date) ==
    IF ~so_far.is_queryset \/ date = <<>> THEN so_far
    ELSE IF ~IsDate(date)
         THEN [so_far EXCEPT !.is_queryset = FALSE, !.returned = InvalidDateResponse]
         ELSE SessionGoing(AssignQueryset(so_far.view,
                  filter(SelfQueryset(so_far.view),
                         Lookup("show_time__date", strptime(date)))))

\* if movie: ...
FilterByMovie(so_far, movie) ==
    IF ~so_far.is_queryset \/ movie = <<>> THEN so_far
    ELSE IF ~IsIntLiteral(movie)
         THEN [so_far EXCEPT !.is_queryset = FALSE, !.returned = InvalidMovieResponse]
         ELSE SessionGoing(AssignQueryset(so_far.view,
                  filter(SelfQueryset(so_far.view), Lookup("movie__id", int(movie)))))

\* get_queryset: what it returns (self.queryset, or a Response object on a
\* parse failure) and self after the call.
MovieSessionViewSet_get_queryset(view0, req) ==
    FilterByMovie(FilterByDate(Annotated(view0), req.date), req.movie)

\* An exception that is no APIException leaves the view: the framework
\* answers 500.
ServerError(exc) ==
    [status |-> 500, kind |-> "error", rows |-> <<>>, detail |-> <<exc>>]

\* The serializer iterates what get_queryset returned.  Iterating a Response
\* object that was never rendered raises ContentNotRenderedError.
SessionListAnswer(got) ==
    IF got.is_queryset
    THEN [response |-> [status |-> 200, kind |-> "sessions",
                        rows |-> Rows(SelfQueryset(got.view),
                                      SessionRows(SelfQueryset(got.view))),
                        detail |-> <<>>],
          attr |-> AfterIteration(got.view, SessionRows(SelfQueryset(got.view)))]
    ELSE [response |-> ServerError("ContentNotRenderedError"),
          attr |-> got.view.attr]

\* ListModelMixin.list over get_queryset, no pagination.
MovieSessionViewSet_list(view0, req) ==
    SessionListAnswer(MovieSessionViewSet_get_queryset(view0, req))

\* get_object_or_404(get_queryset(), pk=pk): Response.get(pk=...) is a
\* TypeError; no row is 404.
SessionFound(got, found) ==
    IF found = <<>>
    THEN [response |-> [status |-> 404, kind |-> "error", rows |-> <<>>,
                        detail |-> <<"Not found.">>],
          attr |-> got.view.attr]
    ELSE [response |-> [status |-> 200, kind |-> "session", rows |-> found,
                        detail |-> <<>>],
          attr |-> got.view.attr]

SessionRetrieveAnswer(got, pk) ==
    IF ~got.is_queryset
    THEN [response |-> ServerError("TypeError"), attr |-> got.view.attr]
    ELSE SessionFound(got, SelectSeq(SessionRows(SelfQueryset(got.view)),
                                     LAMBDA r : r.id = pk))

\* RetrieveModelMixin.retrieve
MovieSessionViewSet_retrieve(view0, req) ==
    SessionRetrieveAnswer(MovieSessionViewSet_get_queryset(view0, req), req.pk)

\* GET movie-sessions/
ListSessions(date, movie) ==
    /\ Idle
    /\ LET req == [NoRequest EXCEPT !.op = "list_sessions", !.date = date,
                                    !.movie = movie]
           done == MovieSessionViewSet_list(NewView("MovieSessionViewSet"), req)
       IN  /\ request' = req
           /\ response' = done.response
           /\ class_queryset' =
                  [class_queryset EXCEPT !["MovieSessionViewSet"] = done.attr]
           /\ filtered_before' =
                  (filtered_before \/ (done.response.status = 200 /\ HasFilter(req)))
    /\ UNCHANGED <<movies, movie_sessions, orders, created_by>>

\* GET movie-sessions/<pk>/
RetrieveSession(pk, date, movie) ==
    /\ Idle
    /\ LET req == [NoRequest EXCEPT !.op = "retrieve_session", !.pk = pk,
                                    !.date = date, !.movie = movie]
           done == MovieSessionViewSet_retrieve(NewView("MovieSessionViewSet"), req)
       IN  /\ request' = req
           /\ response' = done.response
           /\ class_queryset' =
                  [class_queryset EXCEPT !["MovieSessionViewSet"] = done.attr]
           /\ filtered_before' =
                  (filtered_before \/ (done.response.status = 200 /\ HasFilter(req)))
    /\ UNCHANGED <<movies, movie_sessions, orders, created_by>>

\* POST movie-sessions/: the movie and the hall must exist.
CreateSession(session) ==
    /\ Idle
    /\ Len(movie_sessions) < MaxSessions
    /\ session.movie \in DOMAIN movies
    /\ session.cinema_hall \in DOMAIN CinemaHalls
    /\ movie_sessions' = Append(movie_sessions, session)
    /\ request' = [NoRequest EXCEPT !.op = "create_session"]
    /\ response' = [status |-> 201, kind |-> "created",
                    rows |-> <<Len(movie_sessions) + 1>>, detail |-> <<>>]
    /\ UNCHANGED <<movies, orders, class_queryset, created_by, filtered_before>>

----------------------------------------------------------------------------
(* OrderViewSet *)

\* A faulty variant: no restriction to the requesting user.
OrderViewSet_get_queryset_unscoped(view, req) == SelfQueryset(view)

\* get_queryset: the orders of request.user (a local, nothing is assigned).
OrderViewSet_get_queryset(view, req) ==
    filter(SelfQueryset(view), Lookup("user", req.user))

OrderMatches(o, cond) ==
    CASE cond.lookup = "user" -> orders[o].user = cond.value
      [] OTHER -> TRUE

OrderRows(queryset) ==
    SelectSeq([o \in DOMAIN orders |-> o],
              LAMBDA o : \A i \in DOMAIN queryset.filters :
                             OrderMatches(o, queryset.filters[i]))

\* A faulty variant: max_page_size is not applied.
get_page_size_no_cutoff(req) ==
    IF IsIntLiteral(req.page_size) /\ int(req.page_size) > 0
    THEN int(req.page_size)
    ELSE page_size

\* PageNumberPagination.get_page_size with OrderViewSetPagination's
\* attributes: a positive integer page_size is cut off at max_page_size,
\* anything else (absent, zero, negative, no integer) gives page_size.
get_page_size(req) ==
    IF IsIntLiteral(req.page_size) /\ int(req.page_size) > 0
    THEN Min(int(req.page_size), max_page_size)
    ELSE page_size

\* Paginator.num_pages, the first page being allowed to be empty.
NumPages(count, per_page) ==
    IF count = 0 THEN 1 ELSE (count + per_page - 1) \div per_page

\* ListModelMixin.list with the paginator: one page of get_queryset, or 404
\* for a page that does not exist.
OrderViewSet_list(view, req) ==
    LET rows == OrderRows(OrderViewSet_get_queryset(view, req))
        size == get_page_size(req)
    IN  IF req.page > NumPages(Len(rows), size)
        THEN [status |-> 404, kind |-> "error", rows |-> <<>>,
              detail |-> <<"Invalid page.">>]
        ELSE [status |-> 200, kind |-> "orders",
              rows |-> SubSeq(rows, (req.page - 1) * size + 1,
                              Min(req.page * size, Len(rows))),
              detail |-> <<>>]

\* GET orders/
ListOrders(user, user_param, size, page) ==
    /\ Idle
    /\ LET req == [NoRequest EXCEPT !.op = "list_orders", !.user = user,
                                    !.user_param = user_param,
                                    !.page_size = size, !.page = page]
       IN  /\ request' = req
           /\ response' = OrderViewSet_list(NewView("OrderViewSet"), req)
    /\ UNCHANGED <<movies, movie_sessions, orders, class_queryset, created_by, filtered_before>>

\* BaseSerializer.save(**kwargs): {**validated_data, **kwargs} is stored.
save(validated_data, kwargs) ==
    [f \in DOMAIN validated_data \cup DOMAIN kwargs |->
        IF f \in DOMAIN kwargs THEN kwargs[f] ELSE validated_data[f]]

\* A faulty variant: a user named in the body wins over request.user.
perform_create_body_first(req, validated_data) ==
    save([user |-> req.user], validated_data)

\* perform_create: serializer.save(user=self.request.user)
perform_create(req, validated_data) == save(validated_data, [user |-> req.user])

\* A seat is left in every session the tickets are for.
SeatsLeft(tickets) ==
    \A s \in DOMAIN movie_sessions :
        CountTickets(s) + Cardinality({i \in DOMAIN tickets : tickets[i] = s})
            <= CinemaHalls[movie_sessions[s].cinema_hall].rows
                   * CinemaHalls[movie_sessions[s].cinema_hall].seats_in_row

\* POST orders/ by an authenticated user: CreateModelMixin.create calls
\* perform_create with the validated body.  A body that names a user
\* carries it into the validated data.
CreateOrder(user, body_user, tickets) ==
    /\ Idle
    /\ Len(orders) < MaxOrders
    /\ tickets # <<>>
    /\ Range(tickets) \subseteq DOMAIN movie_sessions
    /\ SeatsLeft(tickets)
    /\ LET req == [NoRequest EXCEPT !.op = "create_order", !.user = user,
                                    !.body_user = body_user]
           validated_data == IF body_user = "" THEN [tickets |-> tickets]
                             ELSE [tickets |-> tickets, user |-> body_user]
       IN  /\ request' = req
           /\ orders' = Append(orders, perform_create(req, validated_data))
    /\ created_by' = Append(created_by, user)
    /\ response' = [status |-> 201, kind |-> "created", rows |-> <<Len(orders) + 1>>,
                    detail |-> <<>>]
    /\ UNCHANGED <<movies, movie_sessions, class_queryset, filtered_before>>

----------------------------------------------------------------------------
(* Inputs *)

\* str.join
RECURSIVE Join(_, _)
Join(tokens, sep) ==
    IF tokens = <<>> THEN <<>>
    ELSE IF Len(tokens) = 1 THEN Head(tokens)
    ELSE Head(tokens) \o <<sep>> \o Join(Tail(tokens), sep)

\* The tokens of the ID lists sent: two IDs, a word, nothing (as in "1,,2")
\* and a token with a backslash in it.
IdTokens == {<<"1">>, <<"2">>, <<"a">>, <<>>, <<"1", "\\", "a">>}

TitleInputs == {<<>>, <<"A">>}

\* The movie list requests sent: genres, actors and title, the two ID lists
\* holding MaxIds tokens at most between them.
MovieQueries ==
    { <<Join(p[1], ","), Join(p[2], ","), t>> :
        p \in { x \in SeqsUpTo(IdTokens, MaxIds) \X SeqsUpTo(IdTokens, MaxIds) :
                   Len(x[1]) + Len(x[2]) <= MaxIds },
        t \in TitleInputs }

ClassQuerysets ==
    [c \in {"MovieViewSet", "MovieSessionViewSet", "OrderViewSet"} |-> BaseQuerySet(c)]

Init ==
    /\ movies = <<>>
    /\ movie_sessions = <<>>
    /\ orders = <<>>
    /\ class_queryset = ClassQuerysets
    /\ request = NoRequest
    /\ response = NoResponse
    /\ created_by = <<>>
    /\ filtered_before = FALSE

\* A request is taken up when none is pending (Idle comes first, so that no
\* input is drawn while a response waits to be sent).
NextMovie ==
    \/ Idle /\ \E movie \in MovieInputs : CreateMovie(movie)
    \/ Idle /\ \E q \in MovieQueries : ListMovies(q[1], q[2], q[3])
    \/ Deliver

SpecMovie == Init /\ [][NextMovie]_vars

----------------------------------------------------------------------------
(* Movie sessions, tickets and orders *)

Date_2024_01_05 == <<"2", "0", "2", "4", "-", "0", "1", "-", "0", "5">>
Date_2024_02_29 == <<"2", "0", "2", "4", "-", "0", "2", "-", "2", "9">>
Date_2023_02_29 == <<"2", "0", "2", "3", "-", "0", "2", "-", "2", "9">>
Date_2024_13_40 == <<"2", "0", "2", "4", "-", "1", "3", "-", "4", "0">>

DateInputs == {<<>>, Date_2024_01_05, Date_2024_02_29, Date_2023_02_29, Date_2024_13_40}

MovieIdInputs == {<<>>, <<"1">>, <<"2">>, <<"a">>}

SessionInputs ==
    { [movie |-> 1, cinema_hall |-> 1, show_date |-> strptime(Date_2024_01_05)],
      [movie |-> 2, cinema_hall |-> 2, show_date |-> strptime(Date_2024_01_05)],
      [movie |-> 1, cinema_hall |-> 2, show_date |-> strptime(Date_2024_02_29)] }

RetrieveInputs ==
    { <<<<>>, <<>>>>, <<Date_2024_01_05, <<>>>>, <<Date_2024_13_40, <<>>>>,
      <<<<>>, <<"1">>>> }

\* Two movies are in store: sessions need a movie to refer to.
SeedMovies ==
    << [title |-> <<"A", "b">>, genres |-> {1}, actors |-> {1}],
       [title |-> <<"b">>, genres |-> {3}, actors |-> {2}] >>

InitSession ==
    /\ movies = SeedMovies
    /\ movie_sessions = <<>>
    /\ orders = <<>>
    /\ class_queryset = ClassQuerysets
    /\ request = NoRequest
    /\ response = NoResponse
    /\ created_by = <<>>
    /\ filtered_before = FALSE

\* The tickets of one order: sessions in ascending order.
TicketInputs ==
    { t \in SeqsUpTo(1..MaxSessions, MaxTickets) :
          \A i \in 1..(Len(t) - 1) : t[i] <= t[i + 1] }

\* One user books: who owns a ticket does not enter the seat count.
NextSession ==
    \/ Idle /\ \E session \in SessionInputs : CreateSession(session)
    \/ Idle /\ \E tickets \in TicketInputs :
            /\ Len(AllTickets) + Len(tickets) <= MaxTickets
            /\ CreateOrder("alice", "", tickets)
    \/ Idle /\ \E date \in DateInputs, movie \in MovieIdInputs :
            ListSessions(date, movie)
    \/ Idle /\ \E pk \in 1..MaxSessions, p \in RetrieveInputs :
            RetrieveSession(pk, p[1], p[2])
    \/ Deliver

SpecSession == InitSession /\ [][NextSession]_vars

PageSizeInputs ==
    { <<>>, <<"0">>, <<"3">>, <<"1", "0">>, <<"1", "2">>, <<"a">>, <<"-", "3">> }

Pages == {1, 2}

\* One movie and one session of it in the hall of 5 rows of 10 seats are in
\* store; every order books one seat of that session.
InitOrder ==
    /\ movies = SubSeq(SeedMovies, 1, 1)
    /\ movie_sessions =
           << [movie |-> 1, cinema_hall |-> 3, show_date |-> strptime(Date_2024_01_05)] >>
    /\ orders = <<>>
    /\ class_queryset = ClassQuerysets
    /\ request = NoRequest
    /\ response = NoResponse
    /\ created_by = <<>>
    /\ filtered_before = FALSE

NextOrder ==
    \/ Idle /\ \E user \in Users, body_user \in Users \cup {""} :
            CreateOrder(user, body_user, <<1>>)
    \/ Idle /\ \E user \in Users, user_param \in Users \cup {""},
          size \in PageSizeInputs, page \in Pages :
            ListOrders(user, user_param, size, page)
    \/ Deliver

SpecOrder == InitOrder /\ [][NextOrder]_vars

\* Every store the create operations can build, no request pending; the
\* movie list does not read sessions and the session list reads of a movie
\* only its id, so the two tables vary one at a time.
InitStatic ==
    /\ \/ /\ movies \in SeqsUpTo(MovieInputs, MaxMovies)
          /\ movie_sessions = <<>>
       \/ /\ movies = SeedMovies
          /\ movie_sessions \in SeqsUpTo(SessionInputs, MaxSessions)
    /\ orders = <<>>
    /\ class_queryset = ClassQuerysets
    /\ request = NoRequest
    /\ response = NoResponse
    /\ created_by = <<>>
    /\ filtered_before = FALSE

\* List requests only: the store stays as it is.
NextStatic ==
    \/ Idle /\ \E q \in MovieQueries : ListMovies(q[1], q[2], q[3])
    \/ Idle /\ \E date \in DateInputs, movie \in MovieIdInputs :
            ListSessions(date, movie)
    \/ Deliver

SpecStatic == InitStatic /\ [][NextStatic]_vars

----------------------------------------------------------------------------
(* Claims *)

\* The IDs a comma-separated list names.
RequestedIds(s) == {int(t) : t \in Range(split(s, ","))}

\* An ID list with a token that is no integer.
Malformed(s) == s # <<>> /\ \E t \in Range(split(s, ",")) : ~IsIntLiteral(t)

\* The orders the store holds for a user.
OrdersOf(user) == {o \in DOMAIN orders : orders[o].user = user}

\* The tickets stored for session s, each named by its order and its place in it.
TicketsOf(s) ==
    UNION { { <<o, k>> : k \in {n \in DOMAIN orders[o].tickets :
                                    orders[o].tickets[n] = s} } :
            o \in DOMAIN orders }

\* C1: every order an order list request returns is owned by the requesting
\* user, whatever the query parameters and whatever other users have stored.
C1_OnlyOwnOrders ==
    request.op = "list_orders" =>
        \A i \in DOMAIN response.rows : orders[response.rows[i]].user = request.user

C1_Witness ==
    /\ request.op = "list_orders"
    /\ response.rows # <<>>
    /\ request.user_param \notin {"", request.user}
    /\ OrdersOf(request.user_param) # {}

\* C2: every session a movie-session list or retrieve request returns has
\* tickets_available = rows * seats_in_row of its hall minus the number of
\* tickets stored for that session, with or without the date and movie
\* filters; tickets of other sessions do not count.
C2_TicketsAvailable ==
    response.kind \in {"sessions", "session"} =>
        \A i \in DOMAIN response.rows :
            LET row == response.rows[i]
                hall == CinemaHalls[movie_sessions[row.id].cinema_hall]
            IN  row.tickets_available =
                    hall.rows * hall.seats_in_row - Cardinality(TicketsOf(row.id))

C2_Witness ==
    /\ response.kind = "sessions"
    /\ request.date # <<>>
    /\ \E i \in DOMAIN response.rows :
          /\ TicketsOf(response.rows[i].id) # {}
          /\ \E s \in DOMAIN movie_sessions :
                s # response.rows[i].id /\ TicketsOf(s) # {}

\* C3: a movie list request with a valid genres (respectively actors) ID list
\* and no other filter returns exactly the stored movies whose genre
\* (respectively actor) set has an ID in common with the list.
C3_IdListFilter ==
    /\ (response.kind = "movies" /\ request.genres # <<>>
            /\ request.actors = <<>> /\ request.title = <<>>) =>
          Range(response.rows) =
              {m \in DOMAIN movies : movies[m].genres \cap RequestedIds(request.genres) # {}}
    /\ (response.kind = "movies" /\ request.actors # <<>>
            /\ request.genres = <<>> /\ request.title = <<>>) =>
          Range(response.rows) =
              {m \in DOMAIN movies : movies[m].actors \cap RequestedIds(request.actors) # {}}

C3_Witness ==
    /\ response.kind = "movies"
    /\ request.genres = <<"1", ",", "2">>
    /\ request.actors = <<>> /\ request.title = <<>>
    /\ Range(response.rows) # {}
    /\ Range(response.rows) # DOMAIN movies

\* The movies that satisfy every filter the request supplies.
SatisfiesAll(m, req) ==
    /\ req.genres # <<>> => movies[m].genres \cap RequestedIds(req.genres) # {}
    /\ req.actors # <<>> => movies[m].actors \cap RequestedIds(req.actors) # {}
    /\ req.title # <<>> => Contains(Lower(movies[m].title), Lower(req.title))

\* C4: a movie list request with any subset of the filters genres, actors
\* and title, all valid, returns exactly the movies that satisfy every
\* supplied filter; with no filter it returns the whole movie set.
C4_ConjunctiveFilters ==
    response.kind = "movies" =>
        Range(response.rows) = {m \in DOMAIN movies : SatisfiesAll(m, request)}

\* C5: a movie list request whose genres or actors value has a token that is
\* no integer ends in a validation error (400) whose message contains the
\* raw value that failed, and returns no movie, also when an earlier filter
\* of the same request was valid and applied.
C5_MalformedIdList ==
    (request.op = "list_movies" /\ (Malformed(request.genres) \/ Malformed(request.actors))) =>
        /\ response.status = 400
        /\ response.kind = "error"
        /\ response.rows = <<>>
        /\ Contains(response.detail,
                    IF Malformed(request.genres) THEN request.genres ELSE request.actors)

\* C6: a movie-session list request whose date does not parse as YYYY-MM-DD
\* gets a 400 response with the message "Invalid date format. Please use
\* YYYY-MM-DD.", never an internal failure.
C6_InvalidDateIs400 ==
    (request.op = "list_sessions" /\ request.date # <<>> /\ ~IsDate(request.date)) =>
        /\ response.status = 400
        /\ response.detail = <<"Invalid date format. Please use YYYY-MM-DD.">>

\* The page size the claim gives a request: 2 without page_size, the
\* requested size from 1 to 10, 10 above; 0 where it says nothing.
ClaimedPageSize(req) ==
    IF req.page_size = <<>> THEN 2
    ELSE IF ~IsIntLiteral(req.page_size) \/ int(req.page_size) < 1 THEN 0
    ELSE IF int(req.page_size) > 10 THEN 10
    ELSE int(req.page_size)

\* C7: a page of an order list holds at most 10 orders whatever page_size is
\* asked for; the page is cut with size 10 for a page_size above 10, with
\* the requested size from 1 to 10, and with size 2 without page_size.
C7_PageSize ==
    response.kind = "orders" =>
        /\ Len(response.rows) <= 10
        /\ ClaimedPageSize(request) > 0 =>
              Len(response.rows) =
                  Min(ClaimedPageSize(request),
                      Cardinality(OrdersOf(request.user))
                          - (request.page - 1) * ClaimedPageSize(request))

C7_Witness ==
    /\ response.kind = "orders"
    /\ request.page_size = <<"1", "2">>
    /\ Cardinality(OrdersOf(request.user)) > 10
    /\ Len(response.rows) = 10

\* C8: after any sequence of creates, every stored order is owned by the
\* user whose request created it, also when the body named another user.
C8_OwnerIsRequester ==
    /\ Len(orders) = Len(created_by)
    /\ \A o \in DOMAIN orders : orders[o].user = created_by[o]

C8_Witness ==
    /\ request.op = "create_order"
    /\ request.body_user \notin {"", request.user}
    /\ orders[Len(orders)].user = request.user
    /\ \E o \in DOMAIN orders : orders[o].user # request.user

\* A view of a process that has answered nothing yet.
FreshView(cls) ==
    [cls |-> cls, attr |-> ClassQuerysets[cls], has_own |-> FALSE,
     own |-> BaseQuerySet(cls)]

\* C9: against an unchanged store, the answer to a movie or movie-session
\* list request is the answer a process that has served no request gives to
\* it: it depends on the request's parameters and the store alone, and no
\* filter of an earlier request stays on the class attribute.
C9_Stateless ==
    /\ request.op = "list_movies" =>
          response = MovieViewSet_list(FreshView("MovieViewSet"), request).response
    /\ request.op = "list_sessions" =>
          response = MovieSessionViewSet_list(FreshView("MovieSessionViewSet"),
                                              request).response
    /\ \A c \in DOMAIN class_queryset : class_queryset[c].filters = <<>>

C9_Witness ==
    /\ filtered_before
    /\ request.op = "list_movies"
    /\ ~HasFilter(request)
    /\ Len(movies) >= 2
    /\ Range(response.rows) = DOMAIN movies

\* C10: a movie list request filtered by genres and/or actors returns each
\* matching movie once, also when the movie has two of the requested IDs.
C10_NoDuplicates ==
    response.kind = "movies" =>
        \A i, j \in DOMAIN response.rows :
            i # j => response.rows[i] # response.rows[j]

====
